---- MODULE Spec2Model ----
(***************************************************************************)
(* Model of src/repair/project.py: the Project base class (buggy-file      *)
(* backup / restore / diff, configure, compilation database import), the   *)
(* environment-scoped build executor (build_in_env, build_with_cc) and the *)
(* four variant builders Validation, Frontend, Backend and Golden.         *)
(*                                                                         *)
(* External programs (configure command, build commands, the bitcode       *)
(* patcher, the repair search that rewrites the buggy file) are opaque:    *)
(* each run is a nondeterministic choice of exit code, of the artifacts    *)
(* present afterwards and of the content of the messages file.             *)
(*                                                                         *)
(* Three specifications share the module:                                  *)
(*   Spec      one Project instance and its handlers;                      *)
(*   SpecExec  the module-level executor functions with the temporary      *)
(*             directories they allocate (and never delete);               *)
(*   SpecDb    export_compilation_db followed by import_compilation_db.    *)
(* Spec does not carry the temporary directories: every executor call      *)
(* gets a directory of its own from mkdtemp, which SpecExec tracks.        *)
(***************************************************************************)
EXTENDS Integers, Sequences, FiniteSets, TLC

VARIABLES
    cls,            \* class of the Project instance (self.__class__)
    configure_cmd,  \* self.configure_cmd: None or a shell command
    environ,        \* os.environ, the ambient process environment
    environ0,       \* history: os.environ when the model starts
    fs,             \* artifacts existing under self.dir
    buggy,          \* content of join(self.dir, self.buggy)
    backup,         \* content of self._buggy_backup
    orig,           \* history: content of the buggy file at construction
    call,           \* the last handler call of the Project and its outcome
    tmp,            \* messages files of the temporary directories allocated
    exec,           \* the last executor call (SpecExec) and its outcome
    root,           \* self.dir of the compilation-database round trip
    compilation_db, \* compile_commands.json as written by the intercepted build
    exported,       \* value returned by export_compilation_db
    imported,       \* compile_commands.json as written by import_compilation_db
    dbpc            \* position in the export / import round trip

vars == <<cls, configure_cmd, environ, environ0, fs, buggy, backup, orig, call,
          tmp, exec, root, compilation_db, exported, imported, dbpc>>

projVars == <<cls, configure_cmd, fs, buggy, backup, orig, call>>
dbVars == <<root, compilation_db, exported, imported, dbpc>>

----------------------------------------------------------------------------
(* Bounds of the model *)

MaxLines == 1       \* lines in a messages file
MaxTmp == 2         \* temporary directories allocated in one behaviour
MaxDb == 2          \* records of a compilation database

----------------------------------------------------------------------------
(* Values *)

None == "None"

\* Value of an environment variable that is not set.  Values of variables
\* are sequences of strings (the words of a command, the components of a path).
Unset == <<"<unset>">>

\* A file that does not exist; an existing file has lines.
Absent == [exists |-> FALSE, lines |-> <<>>]

Classes == {"Validation", "Frontend", "Backend", "Golden"}

\* Contents the buggy file can have: the one it has when the Project is
\* constructed, and what a rewrite can leave.
Pristine == "c0"
Contents == {Pristine, "c1"}

\* The test specification handed to the constructor: t1 declares a build
\* sub-step, t2 does not; both name the executable they run.
tests_spec ==
    [t \in {"t1", "t2"} |->
        IF t = "t1"
        THEN [build |-> [directory |-> "tests", command |-> "make t"],
              executable |-> "prog"]
        ELSE [executable |-> "prog"]]

Tests == DOMAIN tests_spec

\* Paths whose existence the builders test: executable + suffix.
Suffixes == {"", ".bc", ".patched.bc"}
Artifacts == {<<tests_spec[t].executable, s>> : t \in Tests, s \in Suffixes}

EnvVars == {"CC", "ANGELIX_COMPILER_MESSAGES"}

----------------------------------------------------------------------------
(* Strings and paths.  A path is a sequence of components, a line of the   *)
(* messages file a sequence of characters.                                 *)

Whitespace == {" ", "\n"}

RECURSIVE lstrip(_)
lstrip(s) == IF s # <<>> /\ Head(s) \in Whitespace THEN lstrip(Tail(s)) ELSE s

RECURSIVE rstrip(_)
rstrip(s) ==
    IF s # <<>> /\ s[Len(s)] \in Whitespace
    THEN rstrip(SubSeq(s, 1, Len(s) - 1))
    ELSE s

\* str.strip()
strip(s) == rstrip(lstrip(s))

\* The builtin function dir, which the name dir denotes inside a method
\* that has no local of that name.
BuiltinDir == <<"<built-in function dir>">>

\* The exception os.path.relpath(arg) raises: TypeError when arg is no
\* path, ValueError when arg is the empty string, none otherwise.
relpath_raises(arg) ==
    IF arg = BuiltinDir THEN "TypeError"
    ELSE IF arg = <<>> THEN "ValueError"
    ELSE "none"

\* os.path.join of two relative or absolute component sequences
join(a, b) == a \o b

\* self.dir of the Project instance
SelfDir == <<"proj">>

----------------------------------------------------------------------------
(* The messages side channel *)

\* Lines the compiler wrapper may leave in the messages file: a path with
\* surrounding whitespace, and a blank line.
Lines == {<<" ", "f", "\n">>, <<"\n">>}

RECURSIVE SeqsUpTo(_, _)
SeqsUpTo(S, n) ==
    IF n = 0 THEN {<<>>}
    ELSE LET shorter == SeqsUpTo(S, n - 1)
         IN shorter \cup {Append(q, x) : q \in shorter, x \in S}

\* Content of a messages file after a command: Absent, or its lines.
MessagesFiles ==
    {Absent} \cup {[exists |-> TRUE, lines |-> l] : l \in SeqsUpTo(Lines, MaxLines)}

\* The loop of build_in_env over the lines of the messages file: one
\* warning per line, until relpath raises.
RECURSIVE log_failed(_)
log_failed(lines) ==
    IF lines = <<>> THEN [warnings |-> 0, raised |-> "none"]
    ELSE LET e == relpath_raises(strip(Head(lines)))
         IN IF e # "none" THEN [warnings |-> 0, raised |-> e]
            ELSE LET rest == log_failed(Tail(lines))
                 IN [warnings |-> 1 + rest.warnings, raised |-> rest.raised]

----------------------------------------------------------------------------
(* External commands.  A run of a shell build command: its exit code, the  *)
(* artifacts present when it ends, and what it left in the messages file   *)
(* named by ANGELIX_COMPILER_MESSAGES.                                     *)

Runs == [exit : {0, 1}, fs : SUBSET Artifacts, messages : MessagesFiles]

\* A run of the configure command.
PlainRuns == [exit : {0, 1}, fs : SUBSET Artifacts]

\* A run of angelix-patch-bitcode on a dependency, from the artifacts files:
\* any exit code, and its output path written (or left there) or not.
PatchRuns(files, output) ==
    [exit : {0, 1}, fs : {files \cup {output}, files \ {output}}]

NoRun == [exit |-> 0, fs |-> {}, messages |-> Absent]

----------------------------------------------------------------------------
(* Environment-scoped build executor *)

\* tempfile.mkdtemp(): a directory that does not exist yet
mkdtemp(tmpfs) ==
    LET name(n) == <<"tmp", ToString(n)>>
        n == CHOOSE i \in 1..(Cardinality(DOMAIN tmpfs) + 1) :
                 name(i) \notin DOMAIN tmpfs
    IN name(n)

\* os.path.dirname
dirname(path) == SubSeq(path, 1, Len(path) - 1)

\* The temporary directories once mkdtemp has made the directory created and
\* the command has run with ANGELIX_COMPILER_MESSAGES naming a file in the
\* directory written.
tmp_after(tmpfs, created, written, run) ==
    [d \in DOMAIN tmpfs \cup {created} |->
        IF d = written /\ run.messages.exists THEN run.messages
        ELSE IF d \in DOMAIN tmpfs THEN tmpfs[d]
        ELSE Absent]

\* environment = dict(env); environment['ANGELIX_COMPILER_MESSAGES'] = messages
child_environment(env, messages) ==
    [env EXCEPT !["ANGELIX_COMPILER_MESSAGES"] = messages]

\* build_in_env(dir, cmd, stderr, env): env is the mapping passed in, which
\* the function copies and so leaves as it was.
build_in_env(dir, env, run, tmpfs) ==
    LET dirpath == mkdtemp(tmpfs)
        messages == join(dirpath, <<"messages">>)
        environment == child_environment(env, messages)
        tmp1 == tmp_after(tmpfs, dirpath,
                          dirname(environment["ANGELIX_COMPILER_MESSAGES"]), run)
        nonzero == IF run.exit # 0 THEN relpath_raises(dir) ELSE "none"
        content == tmp1[dirpath]
        logged == IF content.exists
                  THEN log_failed(content.lines)
                  ELSE [warnings |-> 0, raised |-> "none"]
        base == [env |-> env, childEnv |-> environment, exit |-> run.exit,
                 dir |-> dirpath, tmp |-> tmp1, content |-> content]
    IN IF nonzero # "none"
       THEN base @@ [raised |-> nonzero, nonzero |-> 0, failed |-> 0]
       ELSE base @@ [raised |-> logged.raised,
                     nonzero |-> IF run.exit # 0 THEN 1 ELSE 0,
                     failed |-> logged.warnings]

\* env = dict(os.environ); env['CC'] = cc
cc_environment(osenv, cc) == [osenv EXCEPT !["CC"] = cc]

\* os.environ after a build_with_cc that sets CC in os.environ itself
environ_after_cc_aliased(osenv, env) == env

\* os.environ after build_with_cc: env is a copy, os.environ is not touched
environ_after_cc(osenv, env) == osenv

\* build_with_cc(dir, cmd, stderr, cc)
build_with_cc(dir, osenv, run, tmpfs, cc) ==
    LET env == cc_environment(osenv, cc)
        r == build_in_env(dir, env, run, tmpfs)
    IN [r EXCEPT !.env = environ_after_cc(osenv, r.env)]

----------------------------------------------------------------------------
(* Project handlers.  Each returns the outcome of one call: the exception  *)
(* raised ("none" for a normal return), the steps taken in order (a run of *)
(* a command, or an existence check with what it found), the               *)
(* warnings and errors logged, the child processes run with the CC each    *)
(* saw and its exit code, the artifacts and os.environ afterwards.         *)

build_cmd == "make"
PatchCmd == "angelix-patch-bitcode"

Child(cmd, env, exit) == [cmd |-> cmd, cc |-> env["CC"], exit |-> exit]

Outcome(raised, trace, warnings, errors, children, files, env) ==
    [raised |-> raised, trace |-> trace, warnings |-> warnings,
     errors |-> errors, children |-> children, fs |-> files, environ |-> env]

\* The outcome of a whole-project build run through the executor result r.
BuildOutcome(r, run) ==
    Outcome(r.raised, <<<<"build", "run">>>>, r.nonzero + r.failed, 0,
            <<Child(build_cmd, r.childEnv, r.exit)>>, run.fs, r.env)

\* restore_buggy with the copy's arguments exchanged
restore_buggy_reversed(files) == [files EXCEPT !.backup = files.buggy]

\* Project.restore_buggy: the two files after the copy
restore_buggy(files) == [files EXCEPT !.buggy = files.backup]

\* Project.diff_buggy: whether the unified diff has any line
diff_buggy(files) == files.buggy # files.backup

\* Project.configure
configure(cmd, files, osenv, run) ==
    IF cmd = None
    THEN Outcome("none", <<>>, 0, 0, <<>>, files, osenv)
    ELSE LET children == <<Child(cmd, osenv, run.exit)>>
             e == relpath_raises(BuiltinDir)
         IN IF run.exit = 0
            THEN Outcome("none", <<<<"configure", "run">>>>, 0, 0, children, run.fs, osenv)
            ELSE IF e # "none"
            THEN Outcome(e, <<<<"configure", "run">>>>, 0, 0, children, run.fs, osenv)
            ELSE Outcome("none", <<<<"configure", "run">>>>, 1, 0, children, run.fs, osenv)

\* 'build' in self.tests_spec[test_case]
declares_build(t) == "build" \in DOMAIN tests_spec[t]

\* join(self.dir, self.tests_spec[test_case]['executable']) + suffix
dependency_path(t, suffix) == <<tests_spec[t].executable, suffix>>

\* The part of build_test up to the first existence check, given the result
\* r of the sub-build's executor call: the steps, children and files so far.
SubBuild(t, files, osenv, r, sub) ==
    IF declares_build(t)
    THEN Outcome(r.raised, <<<<"sub_build", "run">>>>, r.nonzero + r.failed, 0,
                 <<Child(tests_spec[t].build.command, r.childEnv, r.exit)>>,
                 sub.fs, r.env)
    ELSE Outcome("none", <<>>, 0, 0, <<>>, files, osenv)

\* A step that checks one path: raise CompilationError when it is absent.
Check(o, step, path) ==
    IF path \in o.fs
    THEN [o EXCEPT !.trace = Append(@, <<step, "present">>)]
    ELSE [o EXCEPT !.trace = Append(@, <<step, "absent">>), !.errors = @ + 1,
                   !.raised = "CompilationError"]

\* Validation.build
Validation_build(osenv, run, tmpfs) ==
    BuildOutcome(build_in_env(SelfDir, osenv, run, tmpfs), run)

\* Validation.build_test
Validation_build_test(t, files, osenv, sub, tmpfs) ==
    LET dir == IF declares_build(t)
               THEN join(SelfDir, <<tests_spec[t].build.directory>>)
               ELSE SelfDir
        o == SubBuild(t, files, osenv, build_in_env(dir, osenv, sub, tmpfs), sub)
    IN IF o.raised # "none" THEN o
       ELSE Check(o, "check_exe", dependency_path(t, ""))

\* The compiler each variant selects
FrontendCC == <<"angelix-compiler", "--test">>
BackendCC == <<"angelix-compiler", "--klee">>
GoldenCC_klee == <<"angelix-compiler", "--klee">>
GoldenCC == <<"angelix-compiler", "--test">>

\* Frontend.build
Frontend_build(osenv, run, tmpfs) ==
    BuildOutcome(build_with_cc(SelfDir, osenv, run, tmpfs, FrontendCC), run)

\* Frontend.build_test
Frontend_build_test(t, files, osenv, sub, tmpfs) ==
    LET dir == IF declares_build(t)
               THEN join(SelfDir, <<tests_spec[t].build.directory>>)
               ELSE SelfDir
        o == SubBuild(t, files, osenv,
                      build_with_cc(dir, osenv, sub, tmpfs, FrontendCC), sub)
    IN IF o.raised # "none" THEN o
       ELSE Check(o, "check_exe", dependency_path(t, ""))

\* Backend.build
Backend_build(osenv, run, tmpfs) ==
    BuildOutcome(build_with_cc(SelfDir, osenv, run, tmpfs, BackendCC), run)

\* The patch step with the patcher's non-zero exit raised instead of logged
Patch_raising(o, osenv, patch) ==
    [o EXCEPT !.trace = Append(@, <<"patch", "run">>),
              !.children = Append(@, Child(PatchCmd, osenv, patch.exit)),
              !.raised = IF patch.exit # 0 THEN "CompilationError" ELSE @,
              !.fs = patch.fs]

\* The patch step of Backend.build_test: run angelix-patch-bitcode on the
\* dependency; a non-zero exit is a warning.
Patch(o, osenv, patch) ==
    [o EXCEPT !.trace = Append(@, <<"patch", "run">>),
              !.children = Append(@, Child(PatchCmd, osenv, patch.exit)),
              !.warnings = IF patch.exit # 0 THEN @ + 1 ELSE @,
              !.fs = patch.fs]

\* Backend.build_test without the return after the absent '.bc'
Backend_build_test_unchecked(t, files, osenv, sub, patch, tmpfs) ==
    LET dir == IF declares_build(t)
               THEN join(SelfDir, <<tests_spec[t].build.directory>>)
               ELSE SelfDir
        o == SubBuild(t, files, osenv,
                      build_with_cc(dir, osenv, sub, tmpfs, BackendCC), sub)
        checked == Check(o, "check_bc", dependency_path(t, ".bc"))
    IN IF o.raised # "none" THEN o
       ELSE Check(Patch(checked, osenv, patch), "check_patched",
                  dependency_path(t, ".patched.bc"))

\* Backend.build_test
Backend_build_test(t, files, osenv, sub, patch, tmpfs) ==
    LET dir == IF declares_build(t)
               THEN join(SelfDir, <<tests_spec[t].build.directory>>)
               ELSE SelfDir
        o == SubBuild(t, files, osenv,
                      build_with_cc(dir, osenv, sub, tmpfs, BackendCC), sub)
        checked == Check(o, "check_bc", dependency_path(t, ".bc"))
        patched_dependency == dependency_path(t, ".patched.bc")
    IN IF o.raised # "none" THEN o
       ELSE IF checked.raised # "none" THEN checked
       ELSE Check(Patch(checked, osenv, patch), "check_patched",
                  patched_dependency)

\* Golden.build
Golden_build(osenv, run, tmpfs) ==
    BuildOutcome(build_with_cc(SelfDir, osenv, run, tmpfs, GoldenCC), run)

\* Golden.build_test
Golden_build_test(t, files, osenv, sub, tmpfs) ==
    LET dir == IF declares_build(t)
               THEN join(SelfDir, <<tests_spec[t].build.directory>>)
               ELSE SelfDir
        o == SubBuild(t, files, osenv,
                      build_with_cc(dir, osenv, sub, tmpfs, GoldenCC), sub)
    IN IF o.raised # "none" THEN o
       ELSE Check(o, "check_exe", dependency_path(t, ""))

----------------------------------------------------------------------------
(* Spec: one Project instance *)

\* The record kept of the last call: the handler, its test case and outcome.
CallRecord(op, t, o) ==
    [op |-> op, test |-> t, raised |-> o.raised, trace |-> o.trace,
     warnings |-> o.warnings, errors |-> o.errors, children |-> o.children]

NoOutcome == Outcome("none", <<>>, 0, 0, <<>>, {}, <<>>)

NoTmp == [d \in {} |-> Absent]

NoExec == [fn |-> "none"]

\* Ambient environments: CC set by the user or not.
Environs == {[v \in EnvVars |-> IF v = "CC" THEN cc ELSE Unset] :
                cc \in {Unset, <<"gcc">>}}

DbIdle ==
    /\ root = <<>>
    /\ compilation_db = <<>>
    /\ exported = <<>>
    /\ imported = <<>>
    /\ dbpc = "idle"

\* Project.__init__: the backup is a copy of the buggy file.
Init ==
    /\ cls \in Classes
    /\ configure_cmd \in {None, "./configure"}
    /\ environ \in Environs
    /\ environ0 = environ
    /\ fs \in SUBSET Artifacts
    /\ buggy = Pristine
    /\ backup = buggy
    /\ orig = buggy
    /\ call = CallRecord("__init__", "-", NoOutcome)
    /\ tmp = NoTmp
    /\ exec = NoExec
    /\ DbIdle

\* The repair search (or any external program) rewrites the buggy file.
Mutate ==
    /\ \E c \in Contents \ {buggy} : buggy' = c
    /\ call' = CallRecord("mutate", "-", NoOutcome)
    /\ UNCHANGED <<cls, configure_cmd, environ, environ0, fs, backup, orig,
                   tmp, exec, dbVars>>

RestoreBuggy ==
    LET files == restore_buggy([buggy |-> buggy, backup |-> backup])
    IN /\ buggy' = files.buggy
       /\ backup' = files.backup
       /\ call' = [CallRecord("restore_buggy", "-", NoOutcome) EXCEPT
                      !.trace = IF files.buggy # buggy
                                THEN <<<<"copy", "changed">>>>
                                ELSE <<<<"copy", "same">>>>]
       /\ UNCHANGED <<cls, configure_cmd, environ, environ0, fs, orig,
                      tmp, exec, dbVars>>

DiffBuggy ==
    /\ call' = [CallRecord("diff_buggy", "-", NoOutcome) EXCEPT
                   !.trace = IF diff_buggy([buggy |-> buggy, backup |-> backup])
                             THEN <<<<"diff", "differs">>>>
                             ELSE <<<<"diff", "empty">>>>]
    /\ UNCHANGED <<cls, configure_cmd, environ, environ0, fs, buggy, backup,
                   orig, tmp, exec, dbVars>>

Configure ==
    \E run \in IF configure_cmd = None
               THEN {[exit |-> 0, fs |-> fs]} ELSE PlainRuns :
        LET o == configure(configure_cmd, fs, environ, run)
        IN /\ call' = CallRecord("configure", "-", o)
           /\ fs' = o.fs
           /\ environ' = o.environ
           /\ UNCHANGED <<cls, configure_cmd, environ0, buggy, backup, orig,
                          tmp, exec, dbVars>>

Build ==
    \E run \in Runs :
        LET o == CASE cls = "Validation" -> Validation_build(environ, run, tmp)
                   [] cls = "Frontend" -> Frontend_build(environ, run, tmp)
                   [] cls = "Backend" -> Backend_build(environ, run, tmp)
                   [] cls = "Golden" -> Golden_build(environ, run, tmp)
        IN /\ call' = CallRecord("build", "-", o)
           /\ fs' = o.fs
           /\ environ' = o.environ
           /\ UNCHANGED <<cls, configure_cmd, environ0, buggy, backup, orig,
                          tmp, exec, dbVars>>

BuildTest ==
    \E t \in Tests :
    \E sub \in IF declares_build(t) THEN Runs ELSE {NoRun} :
    \E patch \in IF cls = "Backend"
                 THEN PatchRuns(IF declares_build(t) THEN sub.fs ELSE fs,
                                dependency_path(t, ".patched.bc"))
                 ELSE {[exit |-> 0, fs |-> {}]} :
        LET o == CASE cls = "Validation" ->
                        Validation_build_test(t, fs, environ, sub, tmp)
                   [] cls = "Frontend" ->
                        Frontend_build_test(t, fs, environ, sub, tmp)
                   [] cls = "Backend" ->
                        Backend_build_test(t, fs, environ, sub, patch, tmp)
                   [] cls = "Golden" ->
                        Golden_build_test(t, fs, environ, sub, tmp)
        IN /\ call' = CallRecord("build_test", t, o)
           /\ fs' = o.fs
           /\ environ' = o.environ
           /\ UNCHANGED <<cls, configure_cmd, environ0, buggy, backup, orig,
                          tmp, exec, dbVars>>

Next ==
    \/ Mutate
    \/ RestoreBuggy
    \/ DiffBuggy
    \/ Configure
    \/ Build
    \/ BuildTest

Spec == Init /\ [][Next]_vars

----------------------------------------------------------------------------
(* SpecExec: the executor functions called on their own, with the          *)
(* temporary directories they leave behind.                                *)

\* Ambient environments of the executor: CC and the messages variable set
\* by the caller's own environment or not.
ExecEnvirons ==
    {[v \in EnvVars |-> IF v = "CC" THEN cc ELSE m] :
        cc \in {Unset, <<"gcc">>}, m \in {Unset, <<"stale", "messages">>}}

ExecRecord(fn, cc, r, run) ==
    [fn |-> fn, prev |-> exec.fn, cc |-> cc, raised |-> r.raised, nonzero |-> r.nonzero,
     failed |-> r.failed, childEnv |-> r.childEnv, dir |-> r.dir,
     exit |-> r.exit, written |-> run.messages, content |-> r.content]

InitExec ==
    /\ cls = "Validation"
    /\ configure_cmd = None
    /\ environ \in ExecEnvirons
    /\ environ0 = environ
    /\ fs = {}
    /\ buggy = Pristine
    /\ backup = buggy
    /\ orig = buggy
    /\ call = CallRecord("__init__", "-", NoOutcome)
    /\ tmp = NoTmp
    /\ exec = NoExec
    /\ DbIdle

\* The runs of a command whose artifacts the executor does not look at.
ExecRuns == {run \in Runs : run.fs = {}}

\* build_in_env(dir, cmd, stderr) with the default env=os.environ
ExecBuildInEnv ==
    /\ Cardinality(DOMAIN tmp) < MaxTmp
    /\ \E run \in ExecRuns :
        LET r == build_in_env(SelfDir, environ, run, tmp)
        IN /\ exec' = ExecRecord("build_in_env", Unset, r, run)
           /\ environ' = r.env
           /\ tmp' = r.tmp
    /\ UNCHANGED <<projVars, environ0, dbVars>>

\* build_with_cc(dir, cmd, stderr, cc)
ExecBuildWithCC ==
    /\ Cardinality(DOMAIN tmp) < MaxTmp
    /\ \E run \in ExecRuns, cc \in {FrontendCC, BackendCC} :
        LET r == build_with_cc(SelfDir, environ, run, tmp, cc)
        IN /\ exec' = ExecRecord("build_with_cc", cc, r, run)
           /\ environ' = r.env
           /\ tmp' = r.tmp
    /\ UNCHANGED <<projVars, environ0, dbVars>>

NextExec ==
    \/ ExecBuildInEnv
    \/ ExecBuildWithCC

SpecExec == InitExec /\ [][NextExec]_vars

----------------------------------------------------------------------------
(* Properties of Spec *)

Last(q) == q[Len(q)]

\* The artifact a variant requires of a built test case
TerminalArtifact(c, t) ==
    <<tests_spec[t].executable, IF c = "Backend" THEN ".patched.bc" ELSE "">>

\* C1: after build_test(T), whatever the external commands did, either the
\* call returned normally and the variant's terminal artifact exists, or
\* CompilationError was raised.
C1_ArtifactOrCompilationError ==
    call.op = "build_test" =>
        \/ call.raised = "none" /\ TerminalArtifact(cls, call.test) \in fs
        \/ call.raised = "CompilationError"

\* C2: the backup is written at construction only and always holds the
\* content the buggy file had then; after restore_buggy the buggy file has
\* that content, whatever calls and external mutations came before; a second
\* restore_buggy changes nothing.
C2_RestoreYieldsOriginal ==
    /\ [](backup = orig /\ (call.op = "restore_buggy" => buggy = orig))
    /\ [][/\ backup' = backup
          /\ (call.op = "restore_buggy" /\ call'.op = "restore_buggy"
                 => buggy' = buggy /\ call'.trace = <<<<"copy", "same">>>>)]_vars

\* C2 witness: a restore_buggy that undid a mutation.
C2_Witness ==
    /\ call.op = "restore_buggy"
    /\ call.trace = <<<<"copy", "changed">>>>
    /\ buggy = orig

\* C3: configure() runs the configure command once when there is one and
\* nothing otherwise; on a non-zero exit it logs a warning and returns
\* normally.
C3_ConfigureNeverRaises ==
    call.op = "configure" =>
        /\ call.raised = "none"
        /\ Len(call.children) = IF configure_cmd = None THEN 0 ELSE 1
        /\ call.warnings = IF call.children # <<>> /\ call.children[1].exit # 0
                           THEN 1 ELSE 0

\* C4: build() returns normally whatever the build command's exit code, and
\* for Validation, Frontend and Golden the outcome of build_test(T) is
\* decided by the existence of the executable alone: a normal return when it
\* exists, CompilationError when it does not.
C4_ExitCodeNeverRaises ==
    /\ call.op = "build" => call.raised = "none"
    /\ call.op = "build_test" /\ cls # "Backend" =>
          call.raised = IF dependency_path(call.test, "") \in fs
                        THEN "none" ELSE "CompilationError"

\* C5: in Backend.build_test, once the '.bc' artifact was found and the
\* patcher has run: a zero exit with '.patched.bc' written returns normally;
\* after a non-zero exit CompilationError is raised exactly when
\* '.patched.bc' is absent.
C5_PatchExitAdvisory ==
    call.op = "build_test" /\ cls = "Backend"
      /\ (\E i \in DOMAIN call.trace : call.trace[i] = <<"patch", "run">>) =>
        LET patcher == Last(call.children)
            patched == dependency_path(call.test, ".patched.bc") \in fs
        IN /\ patcher.cmd = PatchCmd
           /\ (patcher.exit = 0 /\ patched => call.raised = "none")
           /\ (patcher.exit # 0 =>
                 (call.raised = "CompilationError" <=> ~patched))
           /\ (patcher.exit # 0 /\ patched => call.raised = "none")

\* C5 witness: the patcher exited non-zero, '.patched.bc' exists, the call
\* returned normally.
C5_Witness ==
    /\ call.op = "build_test" /\ cls = "Backend"
    /\ call.children # <<>>
    /\ Last(call.children).cmd = PatchCmd
    /\ Last(call.children).exit # 0
    /\ dependency_path(call.test, ".patched.bc") \in fs
    /\ call.raised = "none"

\* The external build commands among the children of a call
BuildChildren ==
    {call.children[i] : i \in {j \in DOMAIN call.children :
                                   call.children[j].cmd # PatchCmd}}

\* C8: every build command of build() and build_test() sees the variant's
\* compiler: the ambient CC for Validation, the wrapper's --test mode for
\* Frontend and Golden, its --klee mode for Backend; and Golden's build and
\* build_test give the outcome Frontend's give on every input.
C8_CompilerSelection ==
    /\ call.op \in {"build", "build_test"} =>
          \A c \in BuildChildren :
              c.cc = CASE cls = "Validation" -> environ0["CC"]
                       [] cls = "Frontend" -> <<"angelix-compiler", "--test">>
                       [] cls = "Golden" -> <<"angelix-compiler", "--test">>
                       [] cls = "Backend" -> <<"angelix-compiler", "--klee">>
    /\ cls = "Golden" =>
          /\ \A run \in Runs :
                Golden_build(environ, run, tmp) = Frontend_build(environ, run, tmp)
          /\ \A t \in Tests, sub \in Runs :
                Golden_build_test(t, fs, environ, sub, tmp)
                    = Frontend_build_test(t, fs, environ, sub, tmp)

\* C8 witness: a Golden build_test whose sub-build ran under the --test
\* wrapper while the ambient CC names another compiler.
C8_Witness ==
    /\ cls = "Golden" /\ call.op = "build_test"
    /\ environ0["CC"] = <<"gcc">>
    /\ call.children # <<>>
    /\ call.children[1].cc = <<"angelix-compiler", "--test">>

\* The steps build_test may have taken for test t before its first check
SubBuildSteps(t) ==
    IF declares_build(t) THEN <<<<"sub_build", "run">>>> ELSE <<>>

\* C9: build_test runs the sub-build at most once, first, and only when the
\* test declares one; then checks the executable (Backend: the '.bc'); Backend
\* runs the patcher exactly once, right after a '.bc' check that found it,
\* and checks '.patched.bc' right after the patcher.  A check that finds its
\* artifact absent is the last step and raises CompilationError.
C9_CheckpointOrder ==
    call.op = "build_test" =>
        LET pre == SubBuildSteps(call.test)
            tr == call.trace
            n == Len(tr)
        IN /\ SubSeq(tr, 1, Len(pre)) = pre
           /\ \A i \in DOMAIN tr : i > Len(pre) => tr[i][1] # "sub_build"
           /\ \A i \in DOMAIN tr : tr[i][2] = "absent" => i = n
           /\ call.raised = "CompilationError" <=>
                 (n > 0 /\ tr[n][2] = "absent")
           /\ call.raised = "CompilationError" => call.errors = 1
           /\ call.raised = "none" => n > Len(pre) /\ tr[n][2] = "present"
           /\ cls # "Backend" =>
                 tr \in {pre, pre \o <<<<"check_exe", "present">>>>,
                         pre \o <<<<"check_exe", "absent">>>>}
           /\ cls = "Backend" =>
                 /\ \A i \in DOMAIN tr : tr[i][1] = "patch" =>
                       /\ i > 1 /\ tr[i - 1] = <<"check_bc", "present">>
                       /\ i < n /\ tr[i + 1][1] = "check_patched"
                 /\ \A i \in DOMAIN tr : tr[i][1] = "check_patched" =>
                       i > 1 /\ tr[i - 1] = <<"patch", "run">>
                 /\ \A i \in DOMAIN tr : tr[i] = <<"check_bc", "present">> =>
                       i < n /\ tr[i + 1] = <<"patch", "run">>
                 /\ Cardinality({i \in DOMAIN tr : tr[i][1] = "patch"}) <= 1
                 /\ Cardinality({i \in DOMAIN tr : tr[i][1] = "patch"})
                       = Cardinality({i \in DOMAIN call.children :
                                         call.children[i].cmd = PatchCmd})
                 /\ Len(call.children) = Len(pre)
                       + Cardinality({i \in DOMAIN tr : tr[i][1] = "patch"})

\* C9 witness: a Backend build_test that ran the sub-build, found '.bc',
\* ran the patcher and found '.patched.bc' absent.
C9_Witness ==
    /\ cls = "Backend" /\ call.op = "build_test"
    /\ call.trace = <<<<"sub_build", "run">>, <<"check_bc", "present">>,
                      <<"patch", "run">>, <<"check_patched", "absent">>>>
    /\ call.raised = "CompilationError"

----------------------------------------------------------------------------
(* Properties of SpecExec *)

MessagesVar == "ANGELIX_COMPILER_MESSAGES"

\* C7: the child of build_with_cc sees the CC override, the child of every
\* executor call sees the messages file of that call, the child of a
\* build_in_env called without an environment sees the ambient CC, and
\* os.environ is the same after every call as before the first.
C7_NoEnvironmentLeak ==
    /\ environ = environ0
    /\ exec.fn # "none" =>
          /\ exec.childEnv[MessagesVar] = join(exec.dir, <<"messages">>)
          /\ exec.childEnv["CC"] = IF exec.fn = "build_with_cc"
                                   THEN exec.cc ELSE environ0["CC"]

\* C7 witness: a build_in_env right after a build_with_cc, its child seeing
\* no CC at all.
C7_Witness ==
    /\ exec.fn = "build_in_env"
    /\ exec.prev = "build_with_cc"
    /\ exec.childEnv["CC"] = Unset

\* C10: an executor call logs what the command of that call left in its own
\* messages file: one warning per line when the file exists, none when it
\* does not, and returns normally in both cases.
C10_OneWarningPerLine ==
    exec.fn # "none" =>
        /\ exec.content = exec.written
        /\ exec.raised = "none"
        /\ exec.failed = IF exec.written.exists
                         THEN Len(exec.written.lines) ELSE 0

----------------------------------------------------------------------------
(* SpecDb: Validation.export_compilation_db, then import_compilation_db    *)
(* of the exported value against the same project directory.  An absolute  *)
(* path is the sequence of its components below "/".                       *)

\* os.path.normpath of an absolute path
RECURSIVE normparts(_, _)
normparts(parts, acc) ==
    IF parts = <<>> THEN acc
    ELSE LET c == Head(parts)
         IN IF c = "." THEN normparts(Tail(parts), acc)
            ELSE IF c = ".."
            THEN normparts(Tail(parts),
                           IF acc = <<>> THEN acc
                           ELSE SubSeq(acc, 1, Len(acc) - 1))
            ELSE normparts(Tail(parts), Append(acc, c))

normpath(path) == normparts(path, <<>>)

\* Length of the longest common prefix of two component sequences
RECURSIVE commonprefix(_, _)
commonprefix(a, b) ==
    IF a = <<>> \/ b = <<>> \/ Head(a) # Head(b) THEN 0
    ELSE 1 + commonprefix(Tail(a), Tail(b))

\* os.path.relpath(path, start) for absolute path and start
relpath(path, start) ==
    LET start_list == normpath(start)
        path_list == normpath(path)
        i == commonprefix(start_list, path_list)
        rel_list == [k \in 1..(Len(start_list) - i) |-> ".."]
                        \o SubSeq(path_list, i + 1, Len(path_list))
    IN IF rel_list = <<>> THEN <<".">> ELSE rel_list

\* os.environ['LLVM3_INCLUDE_PATH'] as the flag appended to a command
IncludeFlag == "-I/llvm3/include"

\* The rewrite of export_compilation_db with relpath's arguments exchanged
export_item_reversed(item, dir) ==
    [item EXCEPT !.directory = relpath(dir, item.directory),
                 !.file = relpath(dir, item.file)]

\* The rewrite of one record by export_compilation_db
export_item(item, dir) ==
    [item EXCEPT !.directory = relpath(item.directory, dir),
                 !.file = relpath(item.file, dir)]

\* The rewrite of one record by import_compilation_db
import_item(item, dir) ==
    [item EXCEPT !.directory = join(dir, item.directory),
                 !.file = join(dir, item.file),
                 !.command = Append(item.command, IncludeFlag)]

\* Absolute, normalised paths of the records and of the project directory
AbsPaths == {<<>>, <<"p">>, <<"p", "q">>, <<"p", "x">>, <<"p", "q", "x">>}
Roots == {<<"p">>, <<"p", "q">>}

Items == [directory : AbsPaths, file : AbsPaths, command : {<<"cc", "-c">>}]

InitDb ==
    /\ cls = "Validation"
    /\ configure_cmd = None
    /\ environ \in Environs
    /\ environ0 = environ
    /\ fs = {}
    /\ buggy = Pristine
    /\ backup = buggy
    /\ orig = buggy
    /\ call = CallRecord("__init__", "-", NoOutcome)
    /\ tmp = NoTmp
    /\ exec = NoExec
    /\ root \in Roots
    /\ compilation_db \in SeqsUpTo(Items, MaxDb)
    /\ exported = <<>>
    /\ imported = <<>>
    /\ dbpc = "start"

\* Validation.export_compilation_db: the intercepted build leaves
\* compilation_db in compile_commands.json; the records are returned with
\* relative paths, unless the executor raised.
ExportCompilationDb ==
    /\ dbpc = "start"
    /\ \E run \in ExecRuns :
        LET r == build_in_env(root, environ, run, tmp)
        IN /\ call' = CallRecord("export_compilation_db", "-",
                                 BuildOutcome(r, run))
           /\ environ' = r.env
           /\ IF r.raised # "none"
              THEN /\ dbpc' = "raised"
                   /\ exported' = exported
              ELSE /\ dbpc' = "exported"
                   /\ exported' = [i \in DOMAIN compilation_db |->
                                      export_item(compilation_db[i], root)]
    /\ UNCHANGED <<cls, configure_cmd, environ0, fs, buggy, backup, orig, tmp,
                   exec, root, compilation_db, imported>>

\* Project.import_compilation_db of the exported records
ImportCompilationDb ==
    /\ dbpc = "exported"
    /\ imported' = [i \in DOMAIN exported |-> import_item(exported[i], root)]
    /\ dbpc' = "imported"
    /\ call' = CallRecord("import_compilation_db", "-", NoOutcome)
    /\ UNCHANGED <<cls, configure_cmd, environ, environ0, fs, buggy, backup,
                   orig, tmp, exec, root, compilation_db, exported>>

NextDb ==
    \/ ExportCompilationDb
    \/ ImportCompilationDb

SpecDb == InitDb /\ [][NextDb]_vars

\* Whether an absolute normalised path lies strictly below dir
StrictlyBelow(path, dir) ==
    /\ Len(path) > Len(dir)
    /\ SubSeq(path, 1, Len(dir)) = dir

\* C6 as stated: export then import against the same root gives back, in
\* order, records whose directory and file are the original absolute paths
\* and whose command is the original with the include flag appended once.
C6_RoundTripIdentical ==
    dbpc = "imported" =>
        /\ Len(imported) = Len(compilation_db)
        /\ \A i \in DOMAIN compilation_db :
              /\ imported[i].directory = compilation_db[i].directory
              /\ imported[i].file = compilation_db[i].file
              /\ imported[i].command
                    = Append(compilation_db[i].command, IncludeFlag)

\* C6 amended: for absolute normalised paths and root, the round trip gives
\* back, in order, records whose directory and file name the original paths:
\* they are root joined with the relative path, equal to the original after
\* normpath, and equal to it as written when the original lies strictly
\* below the root; the command is the original with the include flag
\* appended once.
C6_RoundTripUpToNormpath ==
    dbpc = "imported" =>
        /\ Len(imported) = Len(compilation_db)
        /\ \A i \in DOMAIN compilation_db :
              /\ normpath(imported[i].directory) = compilation_db[i].directory
              /\ normpath(imported[i].file) = compilation_db[i].file
              /\ StrictlyBelow(compilation_db[i].directory, root) =>
                    imported[i].directory = compilation_db[i].directory
              /\ StrictlyBelow(compilation_db[i].file, root) =>
                    imported[i].file = compilation_db[i].file
              /\ SubSeq(imported[i].directory, 1, Len(root)) = root
              /\ SubSeq(imported[i].file, 1, Len(root)) = root
              /\ imported[i].command
                    = Append(compilation_db[i].command, IncludeFlag)

\* C6 witness: two records round-tripped, the first in the project root
\* itself, the second with a file outside the root.
C6_Witness ==
    /\ dbpc = "imported"
    /\ Len(imported) = 2
    /\ compilation_db[1].directory = root
    /\ imported[1].directory = join(root, <<".">>)
    /\ ~StrictlyBelow(compilation_db[2].file, root)
    /\ compilation_db[2].file # root
    /\ compilation_db[1] # compilation_db[2]

====
